---- MODULE Spec2Model ----
(***************************************************************************)
(* Geometry pipeline of src/farm_extractor.py:                             *)
(*   parse_complex_kml_to_geojson  and  load_megamendung_geometry.         *)
(*                                                                         *)
(* A boundary file is modelled by what xml.etree.ElementTree exposes to    *)
(* the code: the list of Placemark elements, for each one the first name   *)
(* element, the Polygon elements (document order) and the first Point     *)
(* element, each with its first coordinates element.  An element carries  *)
(* `kids` (it has child elements), because the code tests elements for    *)
(* truth (`find(a) or find(b)`) and an Element without children is false. *)
(* The text of a coordinates element is its sequence of whitespace-       *)
(* separated tokens; a token is the sequence of its comma-separated       *)
(* fields; a field either converts with float() or raises ValueError.     *)
(* Degrees are fixed-point integers in units of 0.0001 degree.            *)
(***************************************************************************)
EXTENDS Integers, Sequences, FiniteSets, Bags, TLC

VARIABLES kml,       \* the boundary file data/megamendung.kml on disk
          pc,        \* "idle": no call outstanding; "done": a call returned
          geometry,  \* outcome of the last load_megamendung_geometry call
          prev,      \* the file and outcome of the call before the last edit
          satellite_data,  \* the rows of table satellite_data, a bag
          saved,     \* history: per key, the measurement last committed for it
          last_save  \* history: what the last save_results call did

store == <<satellite_data, saved, last_save>>
vars == <<kml, pc, geometry, prev, satellite_data, saved, last_save>>

\* ------------------------------------------------------------------ bounds
MaxResults == 2      \* longest list handed to save_results by a direct caller
MaxTokens == 4       \* tokens in the coordinates text of the detailed family
MaxPlacemarks == 2   \* placemarks in a document of the catalogue family

\* -------------------------------------------------------------- data model
None == [tag |-> "None"]

Num(v) == [num |-> TRUE, val |-> v]      \* a field float() converts to v
NaN == [num |-> FALSE, val |-> 0]        \* a field float() rejects ("abc")

P1 == <<1069130, -67000>>
P2 == <<1069140, -67000>>
P3 == <<1069140, -66990>>
PFar == <<2000000, 950000>>              \* "200,95": outside [-180,180] x [-90,90]

Tok(p) == <<Num(p[1]), Num(p[2])>>                \* "lon,lat"
TokAlt(p) == <<Num(p[1]), Num(p[2]), Num(0)>>     \* "lon,lat,0"

Tokens ==
  { Tok(P1), Tok(P2), TokAlt(P3),
    <<NaN, NaN>>,               \* "abc,def"
    <<Num(P1[1]), NaN>>,        \* "106.913,abc"
    <<Num(5)>> }                \* "5"

CoordsElem(k, t) == [kids |-> k, text |-> t]
PolygonElem(k, c) == [kids |-> k, coordinates |-> c]
PointElem(k, c) == [kids |-> k, coordinates |-> c]
NameElem(k, t) == [kids |-> k, text |-> t]

Placemark(n, ps, pt) == [name |-> n, polygons |-> ps, point |-> pt]

Missing == [state |-> "missing"]
Malformed == [state |-> "malformed"]
Doc(ns, pms) == [state |-> "doc", ns |-> ns, placemarks |-> pms]

\* ------------------------------------------------- xml.etree.ElementTree
\* Element.__bool__: an element is true iff it has child elements.
Truthy(e) == e # None /\ e.kids

\* find('.//kml:X', ns): sees the element only in a namespaced document.
FindKml(ns, e) == IF ns THEN e ELSE None

\* find('.//X'): sees the element only in an un-namespaced document.
FindPlain(ns, e) == IF ns THEN None ELSE e

\* The idiom  x.find('.//kml:X', ns) or x.find('.//X').
FindEither(ns, e) == IF Truthy(FindKml(ns, e)) THEN FindKml(ns, e) ELSE FindPlain(ns, e)

First(s) == IF Len(s) = 0 THEN None ELSE s[1]

\* ----------------------------------------------------- coordinate parser
\* The latitude taken from the last field instead of the second.
ParseTokenLastField(parts) ==
  IF Len(parts) >= 2
  THEN IF parts[1].num /\ parts[Len(parts)].num
       THEN << <<parts[1].val, parts[Len(parts)].val>> >>
       ELSE <<>>
  ELSE <<>>

\* Lines 140-147: one token of a Polygon's coordinates text; the result is
\* the list of pairs it appends (none or one).
ParseToken(parts) ==
  IF Len(parts) >= 2
  THEN IF parts[1].num /\ parts[2].num
       THEN << <<parts[1].val, parts[2].val>> >>
       ELSE <<>>                                   \* except ValueError: continue
  ELSE <<>>

RECURSIVE ParseCoordinates(_)
ParseCoordinates(text) ==
  IF Len(text) = 0 THEN <<>>
  ELSE ParseToken(Head(text)) \o ParseCoordinates(Tail(text))

\* Lines 149-152: auto-close.
CloseRing(coordinates) ==
  IF coordinates[1] # coordinates[Len(coordinates)]
  THEN Append(coordinates, coordinates[1])
  ELSE coordinates

\* Line 124.
SynthName(i) == "Placemark_" \o ToString(i)

NameOf(ns, i, placemark) ==
  LET name_elem == FindEither(ns, placemark.name)
  IN IF name_elem # None THEN name_elem.text ELSE SynthName(i)

\* Lines 127-159: the candidates one placemark (index i, 0-based) adds to
\* farm_polygons (none or one).
PlacemarkPolygons(ns, i, placemark) ==
  LET polygon == FindEither(ns, First(placemark.polygons))
  IN IF polygon = None THEN <<>>
     ELSE LET coords_elem == FindEither(ns, polygon.coordinates)
          IN IF coords_elem = None \/ Len(coords_elem.text) = 0 THEN <<>>
             ELSE LET coordinates == ParseCoordinates(coords_elem.text)
                  IN IF Len(coordinates) >= 3
                     THEN << [name |-> NameOf(ns, i, placemark),
                              coordinates |-> CloseRing(coordinates),
                              type |-> "Polygon"] >>
                     ELSE <<>>

\* Lines 118-159: the loop over enumerate(placemarks).
RECURSIVE FarmPolygonsFrom(_, _, _)
FarmPolygonsFrom(ns, placemarks, i) ==
  IF i > Len(placemarks) THEN <<>>
  ELSE PlacemarkPolygons(ns, i - 1, placemarks[i])
         \o FarmPolygonsFrom(ns, placemarks, i + 1)

FarmPolygons(ns, placemarks) == FarmPolygonsFrom(ns, placemarks, 1)

\* Lines 173-175: the Point text is stripped and split on commas only, so a
\* field that spans a whitespace gap ("0 106.914") is one non-numeric field.
RECURSIVE CommaFields(_)
CommaFields(text) ==
  IF Len(text) = 0 THEN <<>>
  ELSE IF Len(text) = 1 THEN text[1]
  ELSE LET rest == CommaFields(Tail(text))
           head == Head(text)
       IN SubSeq(head, 1, Len(head) - 1) \o <<NaN>> \o Tail(rest)

\* Lines 169-180: the pairs one placemark adds to points (none or one).
PlacemarkPoints(ns, placemark) ==
  LET point == FindEither(ns, placemark.point)
  IN IF point = None THEN <<>>
     ELSE LET coords_elem == FindEither(ns, point.coordinates)
          IN IF coords_elem = None \/ Len(coords_elem.text) = 0 THEN <<>>
             ELSE ParseToken(CommaFields(coords_elem.text))

RECURSIVE Points(_, _)
Points(ns, placemarks) ==
  IF Len(placemarks) = 0 THEN <<>>
  ELSE PlacemarkPoints(ns, Head(placemarks)) \o Points(ns, Tail(placemarks))

\* ------------------------------------------------------ geometry resolver
Min(S) == CHOOSE x \in S : \A y \in S : x <= y
Max(S) == CHOOSE x \in S : \A y \in S : x >= y

padding == 10                                    \* 0.001 degree

\* The returned dict: `keys` is the set of keys present; an absent key's
\* field holds a filler that nothing reads.
Geometry(coords, source, keys, name, total, count) ==
  [type |-> "Polygon", coordinates |-> <<coords>>, source |-> source,
   keys |-> {"type", "coordinates", "source"} \cup keys,
   name |-> name, total_polygons |-> total, point_count |-> count,
   area_ha |-> 0]

\* Lines 186-212.
BoundingArea(points) ==
  LET lons == { points[k][1] : k \in 1..Len(points) }
      lats == { points[k][2] : k \in 1..Len(points) }
      min_lon == Min(lons) - padding
      max_lon == Max(lons) + padding
      min_lat == Min(lats) - padding
      max_lat == Max(lats) + padding
  IN Geometry(<< <<min_lon, min_lat>>, <<max_lon, min_lat>>,
                 <<max_lon, max_lat>>, <<min_lon, max_lat>>,
                 <<min_lon, min_lat>> >>,
              "bounding_area", {"point_count"}, "", 0, Len(points))

\* The rectangle without its closing point.
fallback_coords_open ==
  << <<1069120, -67010>>, <<1069150, -67010>>, <<1069150, -66980>>,
     <<1069120, -66980>> >>

\* Lines 240-252.
fallback_coords ==
  << <<1069120, -67010>>, <<1069150, -67010>>, <<1069150, -66980>>,
     <<1069120, -66980>>, <<1069120, -67010>> >>

Fallback == Geometry(fallback_coords, "fallback", {}, "", 0, 0)

\* Line 226: max(farm_polygons, key=len(coordinates)) keeps the first of the
\* candidates with the greatest key.
LargestIndex(farm_polygons) ==
  CHOOSE k \in 1..Len(farm_polygons) :
    /\ \A j \in 1..Len(farm_polygons) :
         Len(farm_polygons[j].coordinates) <= Len(farm_polygons[k].coordinates)
    /\ \A j \in 1..(k-1) :
         Len(farm_polygons[j].coordinates) < Len(farm_polygons[k].coordinates)

\* Lines 163-252: the selection among the four branches.
Resolve(farm_polygons, points) ==
  IF Len(farm_polygons) = 0 /\ Len(points) > 0 THEN BoundingArea(points)
  ELSE IF Len(farm_polygons) = 1
  THEN Geometry(farm_polygons[1].coordinates, "single_polygon", {"name"},
                farm_polygons[1].name, 0, 0)
  ELSE IF Len(farm_polygons) > 1
  THEN LET largest_polygon == farm_polygons[LargestIndex(farm_polygons)]
       IN Geometry(largest_polygon.coordinates, "largest_polygon",
                   {"name", "total_polygons"}, largest_polygon.name,
                   Len(farm_polygons), 0)
  ELSE Fallback

\* ------------------------------------------------------------- the calls
Raised(e) == [raised |-> e, value |-> None]
Returned(g) == [raised |-> "", value |-> g]
NoCall == [raised |-> "", value |-> None]

\* A parse that answers a malformed file with the fallback rectangle.
parse_swallowing_errors(file) ==
  IF file.state = "missing" THEN Raised("FileNotFoundError")
  ELSE IF file.state = "malformed" THEN Returned(Fallback)
  ELSE Returned(Resolve(FarmPolygons(file.ns, file.placemarks),
                        Points(file.ns, file.placemarks)))

\* Lines 92-259.
parse_complex_kml_to_geojson(file) ==
  IF file.state = "missing" THEN Raised("FileNotFoundError")
  ELSE IF file.state = "malformed" THEN Raised("ValueError")
  ELSE Returned(Resolve(FarmPolygons(file.ns, file.placemarks),
                        Points(file.ns, file.placemarks)))

\* Lines 268-274: every candidate path names the one boundary file (the
\* process has changed directory to project_root, line 21).
possible_paths ==
  << "data/megamendung.kml", "data\\megamendung.kml", "./data/megamendung.kml",
     "data/megamendung.kml", "<project_root>/data/megamendung.kml" >>

PathExists(file, path) == file.state # "missing"

\* Lines 294-305: the local area_ha, in units of 1e-8 hectare (the ranges are
\* in units of 1e-4 degree); None when the ring has 3 points or fewer.
area_ha(coords) ==
  IF Len(coords) > 3
  THEN LET lons == { coords[k][1] : k \in 1..(Len(coords) - 1) }
           lats == { coords[k][2] : k \in 1..(Len(coords) - 1) }
           lon_range == Max(lons) - Min(lons)
           lat_range == Max(lats) - Min(lats)
           area_deg2 == lon_range * lat_range
           area_m2 == area_deg2 * (111000 * 111000)
       IN area_m2 \div 10000
  ELSE None

\* Lines 261-313.  The area figures of lines 294-307 are locals that are
\* printed and dropped; the dict is returned as parse_... built it.
load_megamendung_geometry(file) ==
  IF \A k \in 1..Len(possible_paths) : ~PathExists(file, possible_paths[k])
  THEN Raised("FileNotFoundError")
  ELSE LET geometry_ == parse_complex_kml_to_geojson(file)
           printed == IF geometry_.raised = "" THEN area_ha(geometry_.value.coordinates[1])
                      ELSE None
       IN geometry_

\* ------------------------------------------------------------ the inputs
\* Detailed family: one placemark, named or not, with one Polygon and every
\* coordinates text of up to MaxTokens tokens.
Names == { None, NameElem(FALSE, "Boundary") }

DetailedDoc(ns, n, k, t) ==
  Doc(ns, << Placemark(n, << PolygonElem(TRUE, CoordsElem(k, t)) >>, None) >>)

\* Catalogue family: up to MaxPlacemarks placemarks from a catalogue.
T3 == << Tok(P1), Tok(P2), TokAlt(P3) >>
T3r == << TokAlt(P3), Tok(P2), Tok(P1) >>
T3c == << Tok(P1), Tok(P2), Tok(P1) >>
\* four valid coordinates around a malformed token
T4 == << Tok(P1), Tok(P2), <<NaN, NaN>>, TokAlt(P3), Tok(P2) >>
T2 == << Tok(P1), Tok(P2) >>
TFar == << Tok(P1), Tok(P2), Tok(PFar) >>

Poly(t) == PolygonElem(TRUE, CoordsElem(FALSE, t))
Pt(t) == PointElem(TRUE, CoordsElem(FALSE, t))

\* The placemarks an edit of the file adds or removes.
EditPlacemarks == { Placemark(None, <<>>, Pt(<<Tok(P1)>>)) }

PointPlacemarks ==
  EditPlacemarks
    \cup { Placemark(None, <<>>, Pt(t)) :
             t \in { <<TokAlt(P3)>>, <<Tok(P1), Tok(P2)>>, <<<<NaN, NaN>>>> } }

ShapePlacemarks ==
  { Placemark(None, ps, None) :
      ps \in { <<Poly(T3)>>, <<Poly(T3c)>>, <<Poly(T4)>>, <<Poly(T2)>>,
               <<Poly(T3), Poly(T4)>> } }
    \cup { Placemark(NameElem(FALSE, "Boundary"), <<Poly(T3)>>, None),
           Placemark(NameElem(FALSE, "Boundary"), <<Poly(T4)>>, None),
           Placemark(NameElem(FALSE, "Field"), <<Poly(T3r)>>, None) }

Catalogue ==
  PointPlacemarks \cup ShapePlacemarks
    \cup { Placemark(NameElem(TRUE, "Boundary"), <<Poly(T3)>>, None),
           Placemark(None, <<PolygonElem(FALSE, None)>>, PointElem(FALSE, None)),
           Placemark(None, <<PolygonElem(TRUE, None)>>, PointElem(TRUE, None)),
           Placemark(None, <<Poly(<<>>)>>, Pt(<<>>)),
           Placemark(None, <<Poly(TFar)>>, None),
           Placemark(None, <<>>, Pt(<<Tok(PFar)>>)),
           Placemark(NameElem(FALSE, "Boundary"), <<Poly(T2)>>, Pt(<<Tok(P2)>>)) }

NoPrev == [kml |-> None, geometry |-> NoCall]

\* -------------------------------------------------------------- the store
\* A ProcessingResult (lines 39-45).  Dates are day numbers; value and
\* cloud_cover are Num(hundredths) or None (NULL).  A row of satellite_data
\* has the same five columns; id and created_at are assigned by SQLite and
\* read by no query of the source, so the table is the bag of its rows.
ProcessingResult(farm_id, date, variable_name, value, cloud_cover) ==
  [farm_id |-> farm_id, date |-> date, variable_name |-> variable_name,
   value |-> value, cloud_cover |-> cloud_cover]

\* UNIQUE(farm_id, date, variable_name), line 338.
SameKey(a, b) ==
  /\ a.farm_id = b.farm_id
  /\ a.date = b.date
  /\ a.variable_name = b.variable_name

\* value REAL NOT NULL, line 336 (the inputs always give the other NOT NULL
\* columns a value).
NotNull(result) == result.value # None

\* One INSERT OR IGNORE statement: a conflicting row wins over the new one.
insert_or_ignore(rows, result) ==
  IF \E r \in BagToSet(rows) : SameKey(r, result)
  THEN rows
  ELSE rows (+) SetToBag({result})

\* One INSERT OR REPLACE statement, lines 349-354: the rows that conflict on
\* the UNIQUE key are deleted, then the new row is inserted.
insert_or_replace(rows, result) ==
  LET others == { r \in BagToSet(rows) : ~SameKey(r, result) }
  IN [ r \in others |-> rows[r] ] (+) SetToBag({result})

\* The loop of lines 348-354 inside the connection's transaction: the
\* statements run in order up to the first one that SQLite rejects.
RECURSIVE Execute(_, _)
Execute(rows, results) ==
  IF results = <<>> THEN [rows |-> rows, raised |-> ""]
  ELSE IF ~NotNull(Head(results))
       THEN [rows |-> rows, raised |-> "IntegrityError"]
       ELSE Execute(insert_or_replace(rows, Head(results)), Tail(results))

\* DatabaseManager.save_results, lines 345-355: `with sqlite3.connect(...)`
\* commits when the loop ends and rolls every statement back when it raises.
save_results(rows, results) ==
  LET out == Execute(rows, results)
  IN IF out.raised = "" THEN out ELSE [rows |-> rows, raised |-> out.raised]

\* Lines 415-459: one sample every 16 days from start while it is <= end.
RECURSIVE SampleDates(_, _)
SampleDates(current_date, end) ==
  IF current_date <= end
  THEN <<current_date>> \o SampleDates(current_date + 16, end)
  ELSE <<>>

\* Line 445: value = max(0.1, min(0.95, value)), in hundredths.
Clamp(value) == Max({10, Min({95, value})})

\* Lines 413-459: the results list, one result per date and variable in loop
\* order; draws[i] is the i-th pair of random numbers (raw value, cloud).
MockResults(farm_id, variables, start, end, draws) ==
  LET dates == SampleDates(start, end)
      n == Len(variables)
  IN [ i \in 1..(Len(dates) * n) |->
         ProcessingResult(farm_id, dates[((i - 1) \div n) + 1],
                          variables[((i - 1) % n) + 1],
                          Num(Clamp(draws[i].raw)), Num(draws[i].cloud_cover)) ]

\* ------------------------------------------------------- inputs of the store
farm_id_megamendung == "double_u_farm_megamendung"   \* api.py line 57

RequestDates == { 0, 16 }                \* start_date, end_date as day numbers
RequestVariables == { <<"NDVI">>, <<"NDVI", "EVI">> }
Draws == { [raw |-> 5, cloud_cover |-> 5], [raw |-> 75, cloud_cover |-> 40] }

\* Results a direct caller of save_results hands over: a repeated key, a
\* NULL cloud_cover, another farm, and a NULL value that SQLite rejects.
DirectResults ==
  { ProcessingResult(farm_id_megamendung, 0, "NDVI", Num(75), None),
    ProcessingResult(farm_id_megamendung, 0, "NDVI", Num(10), Num(5)),
    ProcessingResult("other_farm", 0, "NDVI", Num(75), Num(40)),
    ProcessingResult(farm_id_megamendung, 16, "NDVI", None, Num(5)) }

\* The keys the inputs can name.
KeyOf(r) == [farm_id |-> r.farm_id, date |-> r.date, variable_name |-> r.variable_name]
Keys ==
  { KeyOf(r) : r \in DirectResults }
    \cup { [farm_id |-> farm_id_megamendung, date |-> d, variable_name |-> v] :
            d \in RequestDates, v \in {"NDVI", "EVI"} }

NothingSaved == [k \in Keys |-> None]
NoSave ==
  [by |-> "", raised |-> "", replaced |-> FALSE, kept |-> FALSE, others_unchanged |-> TRUE]

\* The key's measurement after `results` were committed: that of the last
\* result naming the key, else what it was.
Remember(s, results) ==
  [ k \in Keys |->
      LET named == { i \in 1..Len(results) : KeyOf(results[i]) = k }
      IN IF named = {} THEN s[k]
         ELSE [value |-> results[Max(named)].value,
               cloud_cover |-> results[Max(named)].cloud_cover] ]

\* ------------------------------------------------------------ the machine
Init ==
  /\ \/ kml \in {Missing, Malformed}
     \/ \E ns \in BOOLEAN, nm \in Names, k \in BOOLEAN, len \in 0..MaxTokens :
          \E t \in [1..len -> Tokens] : kml = DetailedDoc(ns, nm, k, t)
     \/ \E ns \in BOOLEAN, len \in 0..MaxPlacemarks :
          \E pms \in [1..len -> Catalogue] : kml = Doc(ns, pms)
  /\ pc = "idle"
  /\ geometry = NoCall
  /\ prev = NoPrev
  /\ satellite_data = EmptyBag
  /\ saved = NothingSaved
  /\ last_save = NoSave

\* A request handler (api.py lines 26 and 55) calls load_megamendung_geometry.
LoadGeometry ==
  /\ pc = "idle"
  /\ geometry' = load_megamendung_geometry(kml)
  /\ pc' = "done"
  /\ UNCHANGED <<kml, prev>>
  /\ UNCHANGED store

InsertAt(s, k, e) == SubSeq(s, 1, k - 1) \o <<e>> \o SubSeq(s, k, Len(s))
RemoveAt(s, k) == SubSeq(s, 1, k - 1) \o SubSeq(s, k + 1, Len(s))

\* Between two requests the file is edited: a Point placemark is added.
AddPointPlacemark ==
  /\ pc = "done"
  /\ kml.state = "doc"
  /\ prev = NoPrev
  /\ \E k \in 1..(Len(kml.placemarks) + 1), pm \in EditPlacemarks :
       kml' = [kml EXCEPT !.placemarks = InsertAt(kml.placemarks, k, pm)]
  /\ prev' = [kml |-> kml, geometry |-> geometry]
  /\ pc' = "idle"
  /\ geometry' = NoCall
  /\ UNCHANGED store

\* Between two requests the file is edited: a Point placemark is removed.
RemovePointPlacemark ==
  /\ pc = "done"
  /\ kml.state = "doc"
  /\ prev = NoPrev
  /\ \E k \in 1..Len(kml.placemarks) :
       /\ kml.placemarks[k] \in EditPlacemarks
       /\ kml' = [kml EXCEPT !.placemarks = RemoveAt(kml.placemarks, k)]
  /\ prev' = [kml |-> kml, geometry |-> geometry]
  /\ pc' = "idle"
  /\ geometry' = NoCall
  /\ UNCHANGED store

Next == LoadGeometry \/ AddPointPlacemark \/ RemovePointPlacemark

Spec == Init /\ [][Next]_vars

\* The monitoring service: the boundary file is in place or missing and the
\* table is empty after init_database (lines 328-343).
InitStore ==
  /\ kml \in { Missing, Doc(FALSE, << Placemark(None, <<Poly(T3)>>, None) >>) }
  /\ pc = "idle"
  /\ geometry = NoCall
  /\ prev = NoPrev
  /\ satellite_data = EmptyBag
  /\ saved = NothingSaved
  /\ last_save = NoSave

\* A call of save_results with `results`, and what history records of it:
\* whether a row was there whose key the call names with another value,
\* whether a row was there whose key the call does not name, and whether
\* every such row is in the table as often as before.
Save(results, by) ==
  LET out == save_results(satellite_data, results)
      before == BagToSet(satellite_data)
      named(r) == \E j \in 1..Len(results) : SameKey(r, results[j])
  IN /\ satellite_data' = out.rows
     /\ saved' = IF out.raised = "" THEN Remember(saved, results) ELSE saved
     /\ last_save' =
          [by |-> by,
           raised |-> out.raised,
           replaced |-> \E r \in before : \E j \in 1..Len(results) :
                          SameKey(r, results[j]) /\ r.value # results[j].value,
           kept |-> \E r \in before : ~named(r),
           others_unchanged |->
             \A r \in before :
               ~named(r) => CopiesIn(r, out.rows) = CopiesIn(r, satellite_data)]

\* A direct caller hands save_results a list of results.
SaveResults ==
  /\ \E len \in 0..MaxResults :
       \E results \in [1..len -> DirectResults] : Save(results, "save_results")
  /\ UNCHANGED <<kml, pc, geometry, prev>>

\* POST /api/farm/process (api.py lines 47-65): the handler loads the
\* geometry and, unless that raised, runs FarmExtractor.process_farm, which
\* saves the generated results when there are any (lines 462-464).
ProcessFarm ==
  \E variables \in RequestVariables, start \in RequestDates, end \in RequestDates :
    \E draws \in [1..(Len(SampleDates(start, end)) * Len(variables)) -> Draws] :
      LET loaded == load_megamendung_geometry(kml)
          results == MockResults(farm_id_megamendung, variables, start, end, draws)
      IN /\ geometry' = loaded
         /\ pc' = "done"
         /\ IF loaded.raised = "" /\ results # <<>>
            THEN Save(results, "process_farm")
            ELSE UNCHANGED store
         /\ UNCHANGED <<kml, prev>>

NextStore == SaveResults \/ ProcessFarm

SpecStore == InitStore /\ [][NextStore]_vars

\* ------------------------------------------------- vocabulary of the claims
\* A well-formed token "lon,lat[,alt]": two or more fields, the first two
\* numeric.
WellFormedToken(tok) == Len(tok) >= 2 /\ tok[1].num /\ tok[2].num

\* The (lon, lat) pairs of the well-formed tokens of a text, in order.
KeptPairs(text) ==
  LET wf == SelectSeq(text, WellFormedToken)
  IN [k \in 1..Len(wf) |-> <<wf[k][1].val, wf[k][2].val>>]

AutoClosed(c) == IF c[1] # c[Len(c)] THEN Append(c, c[1]) ELSE c

\* Every Polygon element of the document, in document order, with the index
\* (1-based) of its placemark.
RECURSIVE DocPolygonsFrom(_, _)
DocPolygonsFrom(pms, i) ==
  IF i > Len(pms) THEN <<>>
  ELSE [k \in 1..Len(pms[i].polygons) |->
          [pm |-> i,
           text |-> IF pms[i].polygons[k].coordinates = None THEN <<>>
                    ELSE pms[i].polygons[k].coordinates.text]]
       \o DocPolygonsFrom(pms, i + 1)

IsShape(p) == Len(KeptPairs(p.text)) >= 3

\* The shape candidates of a document: its Polygon elements with at least 3
\* valid coordinates.
Shapes(doc) == SelectSeq(DocPolygonsFrom(doc.placemarks, 1), IsShape)

ShapeRing(p) == AutoClosed(KeptPairs(p.text))

\* The standalone point coordinates of a document: one per Point element
\* whose text is one well-formed token.
RECURSIVE Cluster(_)
Cluster(pms) ==
  IF Len(pms) = 0 THEN <<>>
  ELSE (IF /\ Head(pms).point # None
           /\ Head(pms).point.coordinates # None
           /\ Len(Head(pms).point.coordinates.text) = 1
        THEN KeptPairs(Head(pms).point.coordinates.text)
        ELSE <<>>) \o Cluster(Tail(pms))

\* The first of the shapes with the greatest ring length.
FirstLargest(shapes) ==
  CHOOSE k \in 1..Len(shapes) :
    /\ \A j \in 1..Len(shapes) : Len(ShapeRing(shapes[j])) <= Len(ShapeRing(shapes[k]))
    /\ \A j \in 1..(k-1) : Len(ShapeRing(shapes[j])) < Len(ShapeRing(shapes[k]))

\* The name a shape of placemark number i (1-based) is to carry.
ExpectedName(doc, i) ==
  IF doc.placemarks[i].name # None
  THEN doc.placemarks[i].name.text
  ELSE "Placemark_" \o ToString(i - 1)

Returns == pc = "done" /\ kml.state = "doc" /\ geometry.raised = ""
Ring == geometry.value.coordinates[1]

\* ---------------------------------------------------------------- claims
\* C1: a well-formed document, namespaced or not, with exactly one shape
\* candidate resolves to source "single_polygon" and to that shape's parsed
\* coordinates, closed by the first point iff the last one differed.
C1_SingleShape ==
  (pc = "done" /\ kml.state = "doc" /\ Len(Shapes(kml)) = 1)
    => /\ geometry.raised = ""
       /\ geometry.value.source = "single_polygon"
       /\ geometry.value.coordinates = << ShapeRing(Shapes(kml)[1]) >>

\* C2: a document with N > 1 shape candidates resolves to source
\* "largest_polygon", to the ring and name of the first candidate of the
\* greatest point count, and to total_polygons = N.
C2_LargestShape ==
  (pc = "done" /\ kml.state = "doc" /\ Len(Shapes(kml)) > 1)
    => LET shapes == Shapes(kml)
           sel == shapes[FirstLargest(shapes)]
       IN /\ geometry.raised = ""
          /\ geometry.value.source = "largest_polygon"
          /\ geometry.value.coordinates = << ShapeRing(sel) >>
          /\ geometry.value.name = ExpectedName(kml, sel.pm)
          /\ "total_polygons" \in geometry.value.keys
          /\ geometry.value.total_polygons = Len(shapes)

\* C3: a document with no shape candidate and M > 0 standalone points
\* resolves to source "bounding_area", to the closed rectangle
\* [min lon - 0.001, max lon + 0.001] x [min lat - 0.001, max lat + 0.001]
\* over the M points, and to the count M.
C3_BoundingArea ==
  (pc = "done" /\ kml.state = "doc" /\ Len(Shapes(kml)) = 0
     /\ Len(Cluster(kml.placemarks)) > 0)
    => LET pts == Cluster(kml.placemarks)
           lons == { pts[k][1] : k \in 1..Len(pts) }
           lats == { pts[k][2] : k \in 1..Len(pts) }
           W == Min(lons) - 10
           E == Max(lons) + 10
           S == Min(lats) - 10
           N == Max(lats) + 10
       IN /\ geometry.raised = ""
          /\ geometry.value.source = "bounding_area"
          /\ geometry.value.coordinates =
               << << <<W, S>>, <<E, S>>, <<E, N>>, <<W, N>>, <<W, S>> >> >>
          /\ geometry.value.point_count = Len(pts)

C5_ClosedRing ==
  Returns => /\ Len(geometry.value.coordinates) = 1
             /\ Len(Ring) >= 4
             /\ Ring[1] = Ring[Len(Ring)]

\* C6: the extractor's candidate list holds exactly one candidate for each
\* Polygon element with at least 3 valid coordinates (several under one
\* Placemark included), none for the others, each ring being the valid
\* coordinates in order, auto-closed.
C6_OneCandidatePerPolygon ==
  (pc = "done" /\ kml.state = "doc")
    => LET farm_polygons == FarmPolygons(kml.ns, kml.placemarks)
           shapes == Shapes(kml)
       IN [k \in 1..Len(farm_polygons) |-> farm_polygons[k].coordinates]
            = [k \in 1..Len(shapes) |-> ShapeRing(shapes[k])]

\* C7: a call raises, and returns no geometry, exactly when the file is
\* missing (not-found error) or is not well-formed XML (malformed-document
\* error); a well-formed document always returns a geometry.
C7_ErrorsOnlyMissingOrMalformed ==
  pc = "done"
    => /\ (geometry.raised # "") <=> (kml.state \in {"missing", "malformed"})
       /\ (kml.state = "missing") <=> (geometry.raised = "FileNotFoundError")
       /\ (kml.state = "malformed") <=> (geometry.raised = "ValueError")
       /\ (geometry.raised # "") <=> (geometry.value = None)

\* A call on a file that is not well-formed XML has raised.
C7_Witness ==
  pc = "done" /\ kml.state = "malformed" /\ geometry.raised = "ValueError"

C9_NameOfSelectedShape ==
  (pc = "done" /\ kml.state = "doc" /\ Len(Shapes(kml)) >= 1)
    => LET shapes == Shapes(kml)
       IN /\ geometry.raised = ""
          /\ "name" \in geometry.value.keys
          /\ geometry.value.name = ExpectedName(kml, shapes[FirstLargest(shapes)].pm)

\* C10: two documents with the same shape elements in the same order, with
\* at least one shape candidate, that differ only in their Point placemarks
\* resolve to geometries identical in every field, never "bounding_area".
C10_PointsDoNotInfluence ==
  (pc = "done" /\ prev.kml # None /\ Len(Shapes(kml)) >= 1)
    => /\ geometry = prev.geometry
       /\ geometry.value.source # "bounding_area"

\* A pair within longitude [-180, 180] and latitude [-90, 90].
InRange(p) ==
  /\ -1800000 <= p[1] /\ p[1] <= 1800000
  /\ -900000 <= p[2] /\ p[2] <= 900000

AllInRange(coords) == \A k \in 1..Len(coords) : InRange(coords[k])

\* C11: every coordinate pair of a shape candidate, of the point cluster and
\* of the returned ring has longitude in [-180, 180] and latitude in
\* [-90, 90]; a token outside these ranges is dropped like a malformed one.
C11_CoordinatesInRange ==
  Returns
    => LET farm_polygons == FarmPolygons(kml.ns, kml.placemarks)
       IN /\ \A k \in 1..Len(farm_polygons) : AllInRange(farm_polygons[k].coordinates)
          /\ AllInRange(Points(kml.ns, kml.placemarks))
          /\ AllInRange(Ring)

\* C12: a geometry returned by load_megamendung_geometry whose ring has more
\* than 3 points carries area_ha = (max lon - min lon) * (max lat - min lat)
\* over the non-closing points, times 111000^2, divided by 10000 (here in
\* units of 1e-8 hectare); a ring of 3 points or fewer carries no area.
C12_AreaCarried ==
  Returns
    => IF Len(Ring) > 3
       THEN LET open == SubSeq(Ring, 1, Len(Ring) - 1)
                lons == { open[k][1] : k \in 1..Len(open) }
                lats == { open[k][2] : k \in 1..Len(open) }
            IN /\ "area_ha" \in geometry.value.keys
               /\ geometry.value.area_ha
                    = ((Max(lons) - Min(lons)) * (Max(lats) - Min(lats))
                         * 111000 * 111000) \div 10000
       ELSE "area_ha" \notin geometry.value.keys

RowsOf(rows, k) == { r \in BagToSet(rows) : KeyOf(r) = k }

\* C13: after any sequence of save_results calls, process_farm runs included,
\* satellite_data holds at most one record per (farm_id, date,
\* variable_name), with the value and cloud_cover of the result most recently
\* saved for that key; a save leaves the records of the keys it does not
\* name as they were.
C13_OneRecordPerKey ==
  /\ \A r \in BagToSet(satellite_data) : KeyOf(r) \in Keys
  /\ \A k \in Keys :
       /\ BagCardinality([ r \in RowsOf(satellite_data, k) |-> satellite_data[r] ]) <= 1
       /\ saved[k] = None <=> RowsOf(satellite_data, k) = {}
       /\ \A r \in RowsOf(satellite_data, k) :
            /\ r.value = saved[k].value
            /\ r.cloud_cover = saved[k].cloud_cover
  /\ last_save.others_unchanged

\* A process_farm run over an overlapping date range committed another value
\* for a key that had a record, next to a record whose key it did not name.
C13_Witness ==
  /\ last_save.by = "process_farm"
  /\ last_save.raised = ""
  /\ last_save.replaced
  /\ last_save.kept

====
